---- MODULE Spec2Model ----
(***************************************************************************)
(* A model of fetch_matches.py: the incremental synchronisation of the     *)
(* per-competition calendar files with the remote match schedule.          *)
(*                                                                         *)
(* Dates are day numbers, instants are hours since day 0 (an instant t     *)
(* falls on the date t \div 24), a datetime is an instant with the UTC     *)
(* offset of its timezone (or the mark that it carries none).  The remote  *)
(* service is the environment: what it answers is drawn from small sets.   *)
(* A persisted calendar that parses holds VEVENTs that all carry DTSTART   *)
(* and DTEND, as every VEVENT written by generate_ics_file does; the UID   *)
(* may be missing.                                                         *)
(***************************************************************************)
EXTENDS Integers, Sequences, FiniteSets, TLC

VARIABLES
  files,                \* competition -> the calendar file at its path
  pc,                   \* position of the script (or of the function under study)
  queue,                \* selected_comps still to process
  comp,                 \* comp_details: the competition being processed (0 when none is)
  match_days_fetched,   \* the match-days as the index returned them (before the filter)
  max_cal_date,         \* latest event start of the existing calendar, or None
  all_match_days,       \* the match-days after the filter of lines 337-341
  all_match_dates,      \* the sorted dates the grouping loop still has to cover
  fetch_ranges,         \* the planned windows <<start, end>>
  chunk,                \* index in fetch_ranges of the next window to fetch
  all_fetched_events,   \* events of the windows fetched so far
  api_ok,               \* per fetched window: whether fetch_schedule_from_api returned data
  requests,             \* schedule requests (windows) issued for the current competition
  writes,               \* number of times the current competition's file was written
  new_events_count,     \* fetched events the merge added
  found,                \* what was at the competition's path when its processing began
  last,                 \* what the last step of the script did
  service,              \* fetch_with_retries: how the service behaves for the request
  attempt               \* fetch_with_retries: the state of its loop

run_vars == <<queue, comp, match_days_fetched, max_cal_date, all_match_days,
              all_match_dates, fetch_ranges, chunk, all_fetched_events, api_ok,
              requests, writes, new_events_count, found>>

vars == <<files, pc, run_vars, last, service, attempt>>

----------------------------------------------------------------------------
(* Bounds of the model. *)

\* competitions discovered as active (their slugs are 1..NumComps)
NumComps == 2
\* match numbers the remote service uses are 1..MaxMatchNo
MaxMatchNo == 2
\* VEVENTs of an existing calendar handed to the merge
MaxExisting == 2
\* fetched events handed to the merge
MaxFetched == 2
\* the dates the planner is tried on are 1..MaxPlanDay
MaxPlanDay == 12
\* length of the match-day lists the planner is tried on
MaxPlanLen == 3
\* attempts the service fails in a row, at most
MaxFail == 5
\* match records in a schedule response processed on its own
MaxRecords == 3

(* Program constants. *)
retries == 4
base_delay == 1
WindowSpanDays == 6
MatchDurationHours == 2

Comps == 1..NumComps
\* the dates the remote match-day index can name
Days == {1, 8}

----------------------------------------------------------------------------
(* Values.  An optional value is a sequence of length 0 (None) or 1. *)

None == <<>>
Some(x) == <<x>>

\* a timezone-aware UTC datetime at instant t (in hours)
UtcDateTime(t) == [t |-> t, off |-> 0, naive |-> FALSE]

\* datetime.date(): the calendar date the datetime shows in its own timezone
DateOf(dt) == (dt.t + dt.off) \div 24

\* the instant of a timezone-aware datetime
Instant(dt) == dt.t

\* dt + timedelta(hours=h)
PlusHours(dt, h) == [dt EXCEPT !.t = @ + h]

\* 12:00 UTC of date d
Noon(d) == d * 24 + 12

\* the offset from UTC of the zone get_localzone() names on the machine
LocalOffset == 0 - 3

\* Elements of a sequence
Range(s) == {s[i] : i \in DOMAIN s}

\* sequences over S of length at most n
SeqUpTo(S, n) == UNION {[1..k -> S] : k \in 0..n}

RECURSIVE SetToSeq(_)
\* the elements of a set of numbers in ascending order
SetToSeq(S) ==
  IF S = {} THEN <<>>
  ELSE LET m == CHOOSE x \in S : \A y \in S : x <= y
       IN <<m>> \o SetToSeq(S \ {m})

RECURSIVE Concat(_)
\* the concatenation of a sequence of sequences
Concat(ss) == IF ss = <<>> THEN <<>> ELSE Head(ss) \o Concat(Tail(ss))

----------------------------------------------------------------------------
(* The calendar file.  A file that exists either parses into VEVENT        *)
(* components or makes Calendar.from_ical raise.                           *)

NoFile == [exists |-> FALSE, parsable |-> FALSE, events |-> <<>>]
Garbage == [exists |-> TRUE, parsable |-> FALSE, events |-> <<>>]
CalendarFile(components) == [exists |-> TRUE, parsable |-> TRUE, events |-> components]

\* what is at a path: nothing, a file that does not parse, or a calendar
Kind(file) ==
  IF ~file.exists THEN "nothing" ELSE IF ~file.parsable THEN "garbage" ELSE "calendar"

\* a VEVENT without UID property (or with an empty one)
NoUid == <<>>

\* event.add(...) of generate_ics_file: the VEVENT written for an event
VEvent(event_data) ==
  [summary |-> event_data.summary, dtstart |-> event_data.dtstart,
   dtend |-> event_data.dtend, location |-> event_data.location,
   description |-> event_data.description, uid |-> event_data.uid,
   dtstamp |-> "now"]

\* generate_ics_file: the file holds one VEVENT per event, in order
generate_ics_file(events) == CalendarFile([i \in DOMAIN events |-> VEvent(events[i])])

\* the event_data dictionary the merge builds from a VEVENT of the existing file
EventData(component) ==
  [summary |-> component.summary, dtstart |-> component.dtstart,
   dtend |-> component.dtend, location |-> component.location,
   description |-> component.description, uid |-> component.uid]

\* dt.astimezone(pytz.utc) if dt.tzinfo is None else dt
AwareStart(dt) ==
  IF dt.naive THEN [t |-> dt.t - LocalOffset, off |-> 0, naive |-> FALSE] ELSE dt

\* MaxStart taking the earliest start (the first value line 94 returns)
MaxStart_Earliest(starts) ==
  starts[CHOOSE i \in DOMAIN starts : \A j \in DOMAIN starts : Instant(starts[i]) <= Instant(starts[j])]

RECURSIVE MaxStart(_)
\* max(aware_starts): the first datetime of the latest instant
MaxStart(starts) ==
  IF Len(starts) = 1 THEN starts[1]
  ELSE LET m == MaxStart(Tail(starts))
       IN IF Instant(m) > Instant(starts[1]) THEN m ELSE starts[1]

\* get_calendar_date_range(filepath)[1]: the latest event start, or None
get_calendar_date_range(file) ==
  IF ~file.exists THEN None
  ELSE IF ~file.parsable THEN None
  ELSE IF file.events = <<>> THEN None
  ELSE Some(MaxStart([i \in DOMAIN file.events |-> AwareStart(file.events[i].dtstart)]))

----------------------------------------------------------------------------
(* The Delta Planner: filter, sort, group. *)

\* IsNewer with >= for the > of line 340
IsNewer_OrEqual(day, cal_date) == day >= cal_date

\* the strict comparison of the filter: is match-day `day` newer than the calendar?
IsNewer(day, cal_date) == day > cal_date

\* lines 337-341: the match-days newer than the calendar's latest event date
FilterMatchDays(days, max_date) ==
  IF max_date # None
  THEN SelectSeq(days, LAMBDA d : IsNewer(d, DateOf(max_date[1])))
  ELSE days

RECURSIVE Insert(_, _)
Insert(x, s) ==
  IF s = <<>> THEN <<x>>
  ELSE IF x <= Head(s) THEN <<x>> \o s ELSE <<Head(s)>> \o Insert(x, Tail(s))

\* sorted leaving the list as it was given
sorted_AsGiven(s) == s

RECURSIVE sorted(_)
\* sorted(list): ascending, duplicates kept
sorted(s) == IF s = <<>> THEN <<>> ELSE Insert(Head(s), sorted(Tail(s)))

\* the window that starts on date start_date_chunk
Chunk(start_date_chunk) == <<start_date_chunk, start_date_chunk + WindowSpanDays>>

\* NotCovered with >= for the > of line 359
NotCovered_OrEqual(dates, end_date_chunk) == SelectSeq(dates, LAMBDA d : d >= end_date_chunk)

\* line 359: the dates the window ending on end_date_chunk does not cover
NotCovered(dates, end_date_chunk) == SelectSeq(dates, LAMBDA d : d > end_date_chunk)

RECURSIVE GroupChunks(_)
\* lines 353-359: the while loop that groups the sorted dates into windows
GroupChunks(dates) ==
  IF dates = <<>> THEN <<>>
  ELSE LET c == Chunk(dates[1])
       IN <<c>> \o GroupChunks(NotCovered(dates, c[2]))

\* lines 350-359
PlanRanges(days) == GroupChunks(sorted(days))

----------------------------------------------------------------------------
(* The remote service client. *)

\* a JSON body: without a 'matches' key, or with the list of match records
NoMatchesJson == [hasMatches |-> FALSE, matches |-> <<>>]
MatchesJson(ms) == [hasMatches |-> TRUE, matches |-> ms]

\* a match record of a schedule response: matchNo (None when the record has
\* none, else the number) and matchDateUtc (None when the record has no
\* timestamp, else the instant the "...Z" string names)
MatchRecord(no, time) == [matchNo |-> no, matchDateUtc |-> time]

\* Delay growing by base_delay per attempt instead of doubling
Delay_Linear(i) == base_delay * (i + 1)

\* line 112
Delay(i) == base_delay * (2 ^ i)

\* the state of the loop of fetch_with_retries before attempt i (0-based):
\* the delays slept so far, whether it has returned and what
RetryStart == [i |-> 0, slept |-> <<>>, returned |-> FALSE, result |-> None]

\* lines 106-118: one iteration of the loop; the attempt raises a
\* RequestException when `fails`, else its JSON body is `json`
RetryIteration(st, fails, json) ==
  IF ~fails
  THEN [st EXCEPT !.returned = TRUE, !.result = Some(json), !.i = @ + 1]
  ELSE IF st.i < retries - 1
       THEN [st EXCEPT !.slept = Append(@, Delay(st.i)), !.i = @ + 1]
       ELSE [st EXCEPT !.returned = TRUE, !.result = None, !.i = @ + 1]

RECURSIVE RetryLoop(_, _, _)
\* the loop run to its end, when the first n_fail attempts raise
RetryLoop(st, n_fail, json) ==
  IF st.returned \/ st.i >= retries THEN st
  ELSE RetryLoop(RetryIteration(st, st.i < n_fail, json), n_fail, json)

\* fetch_with_retries(url, headers): the JSON body, or None
fetch_with_retries(n_fail, json) == RetryLoop(RetryStart, n_fail, json).result

\* fetch_schedule_from_api: the tournament id of an active competition is
\* never empty (line 56), so the request is always made
fetch_schedule_from_api(n_fail, json) == fetch_with_retries(n_fail, json)

\* line 183: f"volleyballworld-{league_slug}-{match_id}"; match_id is what
\* match.get('matchNo') returns, formatted as "None" when it is None and as
\* the digits of the number otherwise
Uid(league_slug, match_id) == <<"volleyballworld", league_slug, match_id>>

\* lines 175-192: the event of a match record that has a timestamp; no team
\* of the modelled responses is in allTeams and no record names a city
MatchEvent(match, league_type, league_slug) ==
  LET dt_utc == UtcDateTime(match.matchDateUtc[1])
  IN [summary |-> <<"N/A", "N/A", league_type>>,
      dtstart |-> dt_utc,
      dtend |-> PlusHours(dt_utc, MatchDurationHours),
      location |-> "Local Desconhecido",
      description |-> <<league_type, match.matchNo>>,
      uid |-> Uid(league_slug, match.matchNo)]

\* line 170: a record without timestamp is skipped
HasTime(match) == match.matchDateUtc # None

\* ProcessMatches with `break` for the `continue` of line 172
ProcessMatches_Break(matches, league_type, league_slug) ==
  LET bad == {i \in DOMAIN matches : ~HasTime(matches[i])}
      n == IF bad = {} THEN Len(matches)
           ELSE (CHOOSE i \in bad : \A j \in bad : i <= j) - 1
  IN [i \in 1..n |-> MatchEvent(matches[i], league_type, league_slug)]

RECURSIVE ProcessMatches(_, _, _)
\* lines 159-195: the loop over the match records
ProcessMatches(matches, league_type, league_slug) ==
  IF matches = <<>> THEN <<>>
  ELSE (IF HasTime(Head(matches))
        THEN <<MatchEvent(Head(matches), league_type, league_slug)>>
        ELSE <<>>)
       \o ProcessMatches(Tail(matches), league_type, league_slug)

\* process_api_response(api_data, league_type, league_slug)
process_api_response(api_data, league_type, league_slug) ==
  IF api_data = None \/ ~api_data[1].hasMatches THEN <<>>
  ELSE ProcessMatches(api_data[1].matches, league_type, league_slug)

\* NextChunk with a `break` when the fetch of a window failed
NextChunk_Break(index, api_data, n) == IF api_data = None THEN n + 1 ELSE index + 1

\* NextChunk leaving out every other window
NextChunk_Skip(index, api_data, n) == index + 2

\* line 363: the for loop goes on to the next window, whatever api_data is
NextChunk(index, api_data, n) == index + 1

\* lines 367-370: the events one window adds to all_fetched_events (the full
\* name and the slug of a competition are both modelled by its number)
ChunkEvents(api_data, comp_details) ==
  IF api_data # None THEN process_api_response(api_data, comp_details, comp_details) ELSE <<>>

----------------------------------------------------------------------------
(* The Event Merger and the write condition. *)

\* ExistingEvents with the walk of line 384 ending at the first VEVENT that
\* has no UID
ExistingEvents_StopAtNoUid(file) ==
  IF file.exists /\ file.parsable
  THEN LET bad == {i \in DOMAIN file.events : file.events[i].uid = NoUid}
           n == IF bad = {} THEN Len(file.events)
                ELSE (CHOOSE i \in bad : \A j \in bad : i <= j) - 1
       IN [i \in 1..n |-> EventData(file.events[i])]
  ELSE <<>>

\* lines 380-399: the events of the existing file that carry a UID
ExistingEvents(file) ==
  IF file.exists /\ file.parsable
  THEN LET with_uid == SelectSeq(file.events, LAMBDA c : c.uid # NoUid)
       IN [i \in DOMAIN with_uid |-> EventData(with_uid[i])]
  ELSE <<>>

\* existing_uids
ExistingUids(file) == {e.uid : e \in Range(ExistingEvents(file))}

\* IsNew without the test of line 402: every fetched event is added
IsNew_NoTest(event, existing_uids) == TRUE

\* line 402: is a fetched event added?
IsNew(event, existing_uids) == event.uid \notin existing_uids

\* lines 401-404: the fetched events that are added
NewEvents(fetched, existing_uids) == SelectSeq(fetched, LAMBDA e : IsNew(e, existing_uids))

\* MergedEvents without lines 380-399: the existing events are not carried over
MergedEvents_FetchedOnly(file, fetched) == NewEvents(fetched, ExistingUids(file))

\* all_events_for_ics after line 404
MergedEvents(file, fetched) == ExistingEvents(file) \o NewEvents(fetched, ExistingUids(file))

\* ShouldWrite holding whatever was merged: the file is always written
ShouldWrite_Always(all_events_for_ics, n_new, file) == TRUE

\* ShouldWrite without the second disjunct of line 408
ShouldWrite_EventsOnly(all_events_for_ics, n_new, file) == all_events_for_ics # <<>>

\* line 408
ShouldWrite(all_events_for_ics, n_new, file) ==
  all_events_for_ics # <<>> \/ (n_new = 0 /\ file.exists)

\* lines 408-414: the file after the merge step
WrittenFile(file, fetched) ==
  LET all_events_for_ics == MergedEvents(file, fetched)
      n_new == Len(NewEvents(fetched, ExistingUids(file)))
  IN IF ShouldWrite(all_events_for_ics, n_new, file)
     THEN generate_ics_file(all_events_for_ics)
     ELSE file

----------------------------------------------------------------------------
(* What the environment can supply to a run of the script. *)

\* the calendar files the script can find at its first run
InitFiles == {NoFile, Garbage, CalendarFile(<<>>)}

\* the match-day lists the index can return for a season, each in ascending
\* order (empty when every request for it failed)
MatchDayLists == {SetToSeq(S) : S \in SUBSET Days}

\* the match-days of a window
DaysIn(range) == {d \in Days : range[1] <= d /\ d <= range[2]}

\* the match records the service can return for a window: any match number,
\* played at noon UTC of a match-day of the window or not yet timed
Records(range) ==
  {MatchRecord(Some(no), time) : no \in 1..MaxMatchNo,
                                 time \in {None} \cup {Some(Noon(d)) : d \in DaysIn(range)}}

\* the JSON bodies the service can answer a schedule request with: a body
\* without matches, or a list of no or one match record
Responses(range) ==
  {NoMatchesJson, MatchesJson(<<>>)} \cup {MatchesJson(<<r>>) : r \in Records(range)}

\* the selections the user (or --update-existing) can make: the chosen
\* competitions in the order of active_competitions
Selections == {SetToSeq(S) : S \in SUBSET Comps}

\* the values of the variables fetch_with_retries is studied with
NoService == [n_fail |-> 0, json |-> NoMatchesJson]

----------------------------------------------------------------------------
(* The script. *)

Init ==
  /\ files \in [Comps -> InitFiles]
  /\ pc = "idle"
  /\ queue = <<>>
  /\ comp = 0
  /\ match_days_fetched = <<>>
  /\ max_cal_date = None
  /\ all_match_days = <<>>
  /\ all_match_dates = <<>>
  /\ fetch_ranges = <<>>
  /\ chunk = 1
  /\ all_fetched_events = <<>>
  /\ api_ok = <<>>
  /\ requests = <<>>
  /\ writes = 0
  /\ new_events_count = 0
  /\ found = "nothing"
  /\ last = "init"
  /\ service = NoService
  /\ attempt = RetryStart

\* lines 232-305: a run starts; the competitions to process are selected,
\* and the script exits when none is
StartScript ==
  /\ pc \in {"idle", "done"}
  /\ \E selected_comps \in Selections :
       /\ queue' = selected_comps
       /\ pc' = IF selected_comps = <<>> THEN "done" ELSE "loop"
  /\ last' = "select"
  /\ UNCHANGED <<files, comp, match_days_fetched, max_cal_date, all_match_days,
                 all_match_dates, fetch_ranges, chunk, all_fetched_events, api_ok,
                 requests, writes, new_events_count, found, service, attempt>>

\* lines 307-359: the next competition: the latest date of its calendar, its
\* match-days, the filter, and either `continue` or the planned windows
ProcessCompetition ==
  /\ pc = "loop"
  /\ queue # <<>>
  /\ comp' = Head(queue)
  /\ queue' = Tail(queue)
  /\ \E days \in MatchDayLists :
       LET latest == get_calendar_date_range(files[comp'])
           kept == FilterMatchDays(days, latest)
       IN /\ max_cal_date' = latest
          /\ match_days_fetched' = days
          /\ all_match_days' = kept
          /\ IF kept = <<>>
             THEN /\ fetch_ranges' = <<>>
                  /\ pc' = "loop"
                  /\ last' = "uptodate"
             ELSE /\ fetch_ranges' = PlanRanges(kept)
                  /\ pc' = "fetch"
                  /\ last' = "plan"
  /\ all_match_dates' = <<>>
  /\ found' = Kind(files[comp'])
  /\ new_events_count' = 0
  /\ all_fetched_events' = <<>>
  /\ api_ok' = <<>>
  /\ requests' = <<>>
  /\ writes' = 0
  /\ chunk' = 1
  /\ UNCHANGED <<files, service, attempt>>

\* lines 363-372: one iteration of the fetch loop; the service fails the
\* first n_fail attempts and would then answer json
FetchChunk ==
  /\ pc = "fetch"
  /\ chunk <= Len(fetch_ranges)
  /\ \E n_fail \in 0..retries, json \in Responses(fetch_ranges[chunk]) :
       LET api_data == fetch_schedule_from_api(n_fail, json)
       IN /\ all_fetched_events' = all_fetched_events \o ChunkEvents(api_data, comp)
          /\ api_ok' = Append(api_ok, api_data # None)
          /\ chunk' = NextChunk(chunk, api_data, Len(fetch_ranges))
  /\ requests' = Append(requests, fetch_ranges[chunk])
  /\ last' = "fetch"
  /\ UNCHANGED <<files, pc, queue, comp, match_days_fetched, max_cal_date,
                 all_match_days, all_match_dates, fetch_ranges, writes,
                 new_events_count, found, service, attempt>>

\* lines 374-414: after the loop, the merge and the write
MergeAndWrite ==
  /\ pc = "fetch"
  /\ chunk > Len(fetch_ranges)
  /\ LET all_events_for_ics == MergedEvents(files[comp], all_fetched_events)
         added == Len(NewEvents(all_fetched_events, ExistingUids(files[comp])))
         written == ShouldWrite(all_events_for_ics, added, files[comp])
     IN /\ new_events_count' = added
        /\ files' = [files EXCEPT ![comp] = WrittenFile(files[comp], all_fetched_events)]
        /\ writes' = IF written THEN writes + 1 ELSE writes
        /\ last' = IF written THEN "write" ELSE "nowrite"
  /\ pc' = "loop"
  /\ UNCHANGED <<queue, comp, match_days_fetched, max_cal_date, all_match_days,
                 all_match_dates, fetch_ranges, chunk, all_fetched_events, api_ok,
                 requests, found, service, attempt>>

\* lines 416-417: every selected competition was processed; the process ends
\* and only the files remain
Finish ==
  /\ pc = "loop"
  /\ queue = <<>>
  /\ pc' = "done"
  /\ comp' = 0
  /\ match_days_fetched' = <<>>
  /\ max_cal_date' = None
  /\ all_match_days' = <<>>
  /\ all_match_dates' = <<>>
  /\ fetch_ranges' = <<>>
  /\ chunk' = 1
  /\ all_fetched_events' = <<>>
  /\ api_ok' = <<>>
  /\ requests' = <<>>
  /\ writes' = 0
  /\ new_events_count' = 0
  /\ found' = "nothing"
  /\ last' = "finish"
  /\ UNCHANGED <<files, queue, service, attempt>>

Next == StartScript \/ ProcessCompetition \/ FetchChunk \/ MergeAndWrite \/ Finish

\* the runs of the script, one after the other, on the same files
Spec == Init /\ [][Next]_vars

----------------------------------------------------------------------------
(* The merge and the write on their own: MergeAndWrite applied to every    *)
(* existing file of up to MaxExisting VEVENTs (with or without UID) and    *)
(* every sequence of up to MaxFetched fetched events.                      *)

\* the instants of the events the merge is tried on
MergeTimes == {Noon(d) : d \in Days}

\* the events process_api_response can make for competition 1
FetchedEvents ==
  {MatchEvent(MatchRecord(Some(no), Some(t)), 1, 1) : no \in 1..MaxMatchNo, t \in MergeTimes}

\* the VEVENTs of an existing calendar: written from such an event, or the
\* same without UID
ExistingVEvents ==
  {VEvent(e) : e \in FetchedEvents} \cup {[VEvent(e) EXCEPT !.uid = NoUid] : e \in FetchedEvents}

ExistingFiles ==
  {NoFile, Garbage} \cup {CalendarFile(cs) : cs \in SeqUpTo(ExistingVEvents, MaxExisting)}

\* the first date after the latest event of the file
FirstNewDay(file) ==
  LET latest == get_calendar_date_range(file)
  IN IF latest = None THEN 1 ELSE DateOf(latest[1]) + 1

\* the script after the fetch loop of competition 1, whose only new
\* match-day was requested with success
InitMerge ==
  /\ \E file \in ExistingFiles :
       /\ files = [c \in Comps |-> IF c = 1 THEN file ELSE NoFile]
       /\ max_cal_date = get_calendar_date_range(file)
       /\ match_days_fetched = <<FirstNewDay(file)>>
       /\ all_match_days = <<FirstNewDay(file)>>
       /\ fetch_ranges = <<Chunk(FirstNewDay(file))>>
       /\ requests = <<Chunk(FirstNewDay(file))>>
       /\ found = Kind(file)
  /\ all_fetched_events \in SeqUpTo(FetchedEvents, MaxFetched)
  /\ pc = "fetch"
  /\ queue = <<>>
  /\ comp = 1
  /\ all_match_dates = <<>>
  /\ chunk = 2
  /\ api_ok = <<TRUE>>
  /\ writes = 0
  /\ new_events_count = 0
  /\ last = "fetch"
  /\ service = NoService
  /\ attempt = RetryStart

NextMerge == MergeAndWrite

SpecMerge == InitMerge /\ [][NextMerge]_vars

----------------------------------------------------------------------------
(* The Delta Planner on its own, statement by statement, on every list of  *)
(* up to MaxPlanLen match-days (in any order, with repetitions).           *)

\* the latest event starts the planner is tried with
PlanLatest == {None} \cup {Some(UtcDateTime(Noon(d))) : d \in {5, 10}}

InitPlan ==
  /\ match_days_fetched \in SeqUpTo(1..MaxPlanDay, MaxPlanLen)
  /\ all_match_days = match_days_fetched
  /\ max_cal_date \in PlanLatest
  /\ pc = "filter"
  /\ files = [c \in Comps |-> NoFile]
  /\ queue = <<>>
  /\ comp = 1
  /\ all_match_dates = <<>>
  /\ fetch_ranges = <<>>
  /\ chunk = 1
  /\ all_fetched_events = <<>>
  /\ api_ok = <<>>
  /\ requests = <<>>
  /\ writes = 0
  /\ new_events_count = 0
  /\ found = "nothing"
  /\ last = "init"
  /\ service = NoService
  /\ attempt = RetryStart

plan_frame == <<files, queue, comp, match_days_fetched, max_cal_date, chunk,
                all_fetched_events, api_ok, requests, writes, new_events_count,
                found, service, attempt>>

\* lines 337-345: the filter, and `continue` when nothing is left
PlanFilter ==
  /\ pc = "filter"
  /\ all_match_days' = FilterMatchDays(all_match_days, max_cal_date)
  /\ pc' = IF all_match_days' = <<>> THEN "uptodate" ELSE "sort"
  /\ last' = "filter"
  /\ UNCHANGED <<all_match_dates, fetch_ranges, plan_frame>>

\* lines 350-353
PlanSort ==
  /\ pc = "sort"
  /\ all_match_dates' = sorted(all_match_days)
  /\ fetch_ranges' = <<>>
  /\ pc' = "group"
  /\ last' = "sort"
  /\ UNCHANGED <<all_match_days, plan_frame>>

\* lines 354-359: one iteration of the while loop
PlanGroup ==
  /\ pc = "group"
  /\ all_match_dates # <<>>
  /\ LET start_date_chunk == all_match_dates[1]
         end_date_chunk == Chunk(start_date_chunk)[2]
     IN /\ fetch_ranges' = Append(fetch_ranges, Chunk(start_date_chunk))
        /\ all_match_dates' = NotCovered(all_match_dates, end_date_chunk)
  /\ last' = "group"
  /\ UNCHANGED <<pc, all_match_days, plan_frame>>

\* line 354: the loop ends when no date is left
PlanEnd ==
  /\ pc = "group"
  /\ all_match_dates = <<>>
  /\ pc' = "planned"
  /\ last' = "planned"
  /\ UNCHANGED <<all_match_days, all_match_dates, fetch_ranges, plan_frame>>

NextPlan == PlanFilter \/ PlanSort \/ PlanGroup \/ PlanEnd

SpecPlan == InitPlan /\ [][NextPlan]_vars

\* the planner is one stretch of sequential code: it always takes its next step
SpecPlanLive == SpecPlan /\ WF_vars(NextPlan)

----------------------------------------------------------------------------
(* fetch_with_retries on its own, attempt by attempt. *)

InitRetry ==
  /\ service \in [n_fail : 0..MaxFail, json : Responses(Chunk(1))]
  /\ attempt = RetryStart
  /\ pc = "request"
  /\ files = [c \in Comps |-> NoFile]
  /\ queue = <<>>
  /\ comp = 1
  /\ match_days_fetched = <<>>
  /\ max_cal_date = None
  /\ all_match_days = <<>>
  /\ all_match_dates = <<>>
  /\ fetch_ranges = <<>>
  /\ chunk = 1
  /\ all_fetched_events = <<>>
  /\ api_ok = <<>>
  /\ requests = <<>>
  /\ writes = 0
  /\ new_events_count = 0
  /\ found = "nothing"
  /\ last = "init"

\* lines 106-118: one attempt; the first service.n_fail attempts raise
RetryAttempt ==
  /\ pc = "request"
  /\ ~attempt.returned
  /\ attempt.i < retries
  /\ attempt' = RetryIteration(attempt, attempt.i < service.n_fail, service.json)
  /\ last' = "attempt"
  /\ UNCHANGED <<files, pc, run_vars, service>>

NextRetry == RetryAttempt

SpecRetry == InitRetry /\ [][NextRetry]_vars

----------------------------------------------------------------------------
(* The fetch loop on its own, attempt by attempt: the windows planned for  *)
(* every non-empty list of up to MaxPlanLen match-days out of FetchDays    *)
(* (in any order), each requested through fetch_with_retries.              *)

\* the match-days the fetch loop is tried with
FetchDays == {1, 3, 8, 15}

\* what the service can answer a window's request with: a body without
\* matches, or one match at noon of the window's first day
FetchResponses(range) ==
  {NoMatchesJson, MatchesJson(<<MatchRecord(Some(1), Some(Noon(range[1])))>>)}

InitFetch ==
  /\ all_match_days \in SeqUpTo(FetchDays, MaxPlanLen) \ {<<>>}
  /\ match_days_fetched = all_match_days
  /\ fetch_ranges = PlanRanges(all_match_days)
  /\ pc = "fetch"
  /\ chunk = 1
  /\ files = [c \in Comps |-> NoFile]
  /\ queue = <<>>
  /\ comp = 1
  /\ max_cal_date = None
  /\ all_match_dates = <<>>
  /\ all_fetched_events = <<>>
  /\ api_ok = <<>>
  /\ requests = <<>>
  /\ writes = 0
  /\ new_events_count = 0
  /\ found = "nothing"
  /\ last = "plan"
  /\ service = NoService
  /\ attempt = RetryStart

\* lines 363-365: the loop takes the next window and calls
\* fetch_schedule_from_api for it; the service will fail the first
\* service.n_fail attempts
FetchBegin ==
  /\ pc = "fetch"
  /\ chunk <= Len(fetch_ranges)
  /\ service' \in [n_fail : 0..MaxFail, json : FetchResponses(fetch_ranges[chunk])]
  /\ attempt' = RetryStart
  /\ requests' = Append(requests, fetch_ranges[chunk])
  /\ pc' = "request"
  /\ last' = "request"
  /\ UNCHANGED <<files, queue, comp, match_days_fetched, max_cal_date, all_match_days,
                 all_match_dates, fetch_ranges, chunk, all_fetched_events, api_ok,
                 writes, new_events_count, found>>

\* lines 365-372: fetch_with_retries has returned; the events of the window
\* are kept and the loop goes on
FetchEnd ==
  /\ pc = "request"
  /\ attempt.returned
  /\ all_fetched_events' = all_fetched_events \o ChunkEvents(attempt.result, comp)
  /\ api_ok' = Append(api_ok, attempt.result # None)
  /\ chunk' = NextChunk(chunk, attempt.result, Len(fetch_ranges))
  /\ pc' = "fetch"
  /\ last' = "fetch"
  /\ UNCHANGED <<files, queue, comp, match_days_fetched, max_cal_date, all_match_days,
                 all_match_dates, fetch_ranges, requests, writes, new_events_count,
                 found, service, attempt>>

\* line 363: the loop ends after the last window
FetchDone ==
  /\ pc = "fetch"
  /\ chunk > Len(fetch_ranges)
  /\ pc' = "fetched"
  /\ last' = "fetched"
  /\ UNCHANGED <<files, run_vars, service, attempt>>

NextFetch == FetchBegin \/ RetryAttempt \/ FetchEnd \/ FetchDone

SpecFetch == InitFetch /\ [][NextFetch]_vars

----------------------------------------------------------------------------
(* process_api_response on its own, on every schedule response of up to    *)
(* MaxRecords match records, each with or without matchNo and with or      *)
(* without matchDateUtc.                                                   *)

\* the instants of the records
ResponseTimes == {Noon(1), Noon(1) + 3, Noon(2)}

\* the match records of the responses
ResponseRecords ==
  {MatchRecord(no, time) : no \in {None} \cup {Some(n) : n \in 1..MaxMatchNo},
                           time \in {None} \cup {Some(t) : t \in ResponseTimes}}

\* the JSON bodies process_api_response is tried on
ResponseBodies ==
  {NoMatchesJson} \cup {MatchesJson(ms) : ms \in SeqUpTo(ResponseRecords, MaxRecords)}

InitResponse ==
  /\ service \in [n_fail : {0}, json : ResponseBodies]
  /\ comp \in Comps
  /\ pc = "response"
  /\ all_fetched_events = <<>>
  /\ files = [c \in Comps |-> NoFile]
  /\ queue = <<>>
  /\ match_days_fetched = <<1>>
  /\ max_cal_date = None
  /\ all_match_days = <<1>>
  /\ all_match_dates = <<>>
  /\ fetch_ranges = <<Chunk(1)>>
  /\ chunk = 1
  /\ api_ok = <<>>
  /\ requests = <<Chunk(1)>>
  /\ writes = 0
  /\ new_events_count = 0
  /\ found = "nothing"
  /\ last = "request"
  /\ attempt = RetryStart

\* lines 367-370: the response of the window is processed and its events kept
ProcessResponse ==
  /\ pc = "response"
  /\ all_fetched_events' = all_fetched_events \o ChunkEvents(Some(service.json), comp)
  /\ api_ok' = Append(api_ok, TRUE)
  /\ pc' = "processed"
  /\ last' = "fetch"
  /\ UNCHANGED <<files, queue, comp, match_days_fetched, max_cal_date, all_match_days,
                 all_match_dates, fetch_ranges, chunk, requests, writes,
                 new_events_count, found, service, attempt>>

NextResponse == ProcessResponse

SpecResponse == InitResponse /\ [][NextResponse]_vars

----------------------------------------------------------------------------
(* The existing-calendar reader followed by the filter, on calendars of up *)
(* to MaxExisting VEVENTs whose DTSTART is in UTC, in a zone 4 hours       *)
(* behind UTC, or without timezone.                                        *)

\* the DTSTART values: the instant t (for a value without timezone, the
\* hour its wall-clock reading names), the offset of its zone
ReaderStarts ==
  {[t |-> t, off |-> off, naive |-> FALSE] : t \in {36, 47, 49}, off \in {0, 0 - 4}}
    \cup {[t |-> t, off |-> 0, naive |-> TRUE] : t \in {36, 47, 49}}

\* a VEVENT that starts at dt
ReaderVEvent(dt) ==
  [VEvent(MatchEvent(MatchRecord(Some(1), Some(36)), 1, 1)) EXCEPT !.dtstart = dt]

ReaderFiles ==
  {NoFile, Garbage}
    \cup {CalendarFile(cs) : cs \in SeqUpTo({ReaderVEvent(dt) : dt \in ReaderStarts}, MaxExisting)}

InitRead ==
  /\ files \in {[c \in Comps |-> IF c = 1 THEN f ELSE NoFile] : f \in ReaderFiles}
  /\ match_days_fetched \in {SetToSeq(S) : S \in SUBSET {1, 2, 3}}
  /\ all_match_days = match_days_fetched
  /\ max_cal_date = None
  /\ pc = "read"
  /\ queue = <<>>
  /\ comp = 1
  /\ all_match_dates = <<>>
  /\ fetch_ranges = <<>>
  /\ chunk = 1
  /\ all_fetched_events = <<>>
  /\ api_ok = <<>>
  /\ requests = <<>>
  /\ writes = 0
  /\ new_events_count = 0
  /\ found = Kind(files[1])
  /\ last = "init"
  /\ service = NoService
  /\ attempt = RetryStart

\* line 325
ReadCalendar ==
  /\ pc = "read"
  /\ max_cal_date' = get_calendar_date_range(files[comp])
  /\ pc' = "filter"
  /\ last' = "read"
  /\ UNCHANGED <<files, queue, comp, match_days_fetched, all_match_days, all_match_dates,
                 fetch_ranges, chunk, all_fetched_events, api_ok, requests, writes,
                 new_events_count, found, service, attempt>>

NextRead == ReadCalendar \/ PlanFilter

SpecRead == InitRead /\ [][NextRead]_vars

----------------------------------------------------------------------------
(* The claims. *)

\* the VEVENTs of a file that carry a UID (none when the file does not parse)
Identified(file) == SelectSeq(file.events, LAMBDA c : c.uid # NoUid)

\* the event data of the VEVENTs of a file
DataOf(file) == {EventData(c) : c \in Range(file.events)}

\* C1: the events handed to the writer are at least as many as the
\* identified events E of the existing calendar, every event of E is among
\* them, and every written event whose identifier is one of E has the data
\* of an event of E (a fetched event with such an identifier is discarded).
C1_ExistingWins ==
  [][(pc = "fetch" /\ last' = "write") =>
       LET E == Identified(files[comp])
           out == files'[comp].events
       IN /\ Len(out) >= Len(E)
          /\ \A i \in DOMAIN E : EventData(E[i]) \in DataOf(files'[comp])
          /\ \A j \in DOMAIN out :
               out[j].uid \in {c.uid : c \in Range(E)}
                 => EventData(out[j]) \in {EventData(c) : c \in Range(E)}]_vars

\* C1 happens: after a write, a fetched event that has the identifier of a
\* written event, and other data, is not in the file
C1_Witness ==
  /\ last = "write"
  /\ found = "calendar"
  /\ \E k \in DOMAIN all_fetched_events :
       /\ all_fetched_events[k] \notin DataOf(files[comp])
       /\ \E c \in Range(files[comp].events) : c.uid = all_fetched_events[k].uid

\* C2: no two events of a written calendar share an identifier.
C2_NoDuplicateUid ==
  last = "write" =>
    \A i, j \in DOMAIN files[comp].events :
      i # j => files[comp].events[i].uid # files[comp].events[j].uid

\* C3: a step of the script keeps, in every calendar that parses, every
\* event that has an identifier, with its data; the file still parses and
\* its set of identifiers does not shrink.
C3_HistoryKept ==
  [][\A c \in Comps :
       files[c].parsable =>
         /\ files'[c].parsable
         /\ \A e \in Range(Identified(files[c])) : EventData(e) \in DataOf(files'[c])
         /\ {e.uid : e \in Range(Identified(files[c]))}
              \subseteq {e.uid : e \in Range(Identified(files'[c]))}]_vars

\* C3 happens: a calendar that had events was rewritten with new events added
C3_Witness ==
  /\ last = "write"
  /\ max_cal_date # None
  /\ new_events_count > 0
  /\ Len(files[comp].events) > new_events_count


\* C4: after the filter the kept match-days are exactly the fetched ones
\* whose date is strictly after the date of the latest event start; with no
\* latest start all are kept.  Latest date 10 and match-days {5, 12} leave {12}.
C4_DeltaFilter ==
  last = "filter" =>
    /\ max_cal_date = None => all_match_days = match_days_fetched
    /\ max_cal_date # None =>
         Range(all_match_days) =
           {d \in Range(match_days_fetched) : d > DateOf(max_cal_date[1])}
    /\ (max_cal_date = Some(UtcDateTime(Noon(10))) /\ Range(match_days_fetched) = {5, 12})
         => Range(all_match_days) = {12}

\* C4 happens: a match-day on the date of the latest event was discarded and
\* a later one kept
C4_Witness ==
  /\ last = "filter"
  /\ max_cal_date # None
  /\ DateOf(max_cal_date[1]) \in Range(match_days_fetched)
  /\ all_match_days # <<>>

\* the least element of a non-empty set of dates
Earliest(S) == CHOOSE x \in S : \A y \in S : x <= y

\* C5: the planned windows are the greedy partition of the kept match-days:
\* the first starts on the earliest match-day, each spans 7 days, each next
\* one starts on the earliest match-day after the end of the previous one,
\* and no match-day is left after the last.  {1, 3, 11} gives [1,7], [11,17].
C5_GreedyWindows ==
  pc = "planned" =>
    LET kept == Range(all_match_days)
        n == Len(fetch_ranges)
        After(k) == {d \in kept : d > fetch_ranges[k][2]}
    IN /\ n >= 1
       /\ fetch_ranges[1][1] = Earliest(kept)
       /\ \A k \in 1..n : fetch_ranges[k][2] = fetch_ranges[k][1] + 6
       /\ \A k \in 2..n :
            After(k - 1) # {} /\ fetch_ranges[k][1] = Earliest(After(k - 1))
       /\ After(n) = {}
       /\ all_match_dates = <<>>
       /\ kept = {1, 3, 11} => fetch_ranges = << <<1, 7>>, <<11, 17>> >>

\* C5 happens: the match-days {1, 3, 11} were planned
C5_Witness ==
  /\ pc = "planned"
  /\ Range(all_match_days) = {1, 3, 11}
  /\ Len(fetch_ranges) = 2

\* no match-day of the list is after the date of the latest event start
NoneNewer(days, latest) ==
  \A d \in Range(days) : latest # None /\ d <= DateOf(latest[1])

\* C6: whenever no fetched match-day of the competition in process is
\* strictly newer than its calendar's latest event date (or none was
\* fetched), no window is planned, no schedule request is issued, the file is
\* not written and stays as it was, and the script is back at the loop over
\* the competitions.
C6_UpToDate ==
  [][(comp' # 0 /\ NoneNewer(match_days_fetched', max_cal_date')) =>
       /\ fetch_ranges' = <<>>
       /\ requests' = <<>>
       /\ writes' = 0
       /\ files' = files
       /\ pc' = "loop"
       /\ last' = "uptodate" => queue' = Tail(queue)]_vars

\* C6 happens: match-days were fetched, none is newer than the calendar, and
\* another competition is still to be processed
C6_Witness ==
  /\ last = "uptodate"
  /\ match_days_fetched # <<>>
  /\ max_cal_date # None
  /\ queue # <<>>

\* the windows a next run would plan for the competition, the match-day
\* list being the same
PlannedAgain ==
  FilterMatchDays(match_days_fetched, get_calendar_date_range(files[comp]))

\* every planned window was fetched and events were persisted
AllFetchedAndPersisted ==
  /\ last = "write"
  /\ \A k \in DOMAIN api_ok : api_ok[k]
  /\ new_events_count > 0

\* C7 as stated: once every planned window was fetched and its events
\* persisted, a second run plans no window.
C7_AsStated == AllFetchedAndPersisted => PlannedAgain = <<>>

\* the latest event of the competition's calendar is on or after every
\* fetched match-day
CalendarUpToDate ==
  LET latest == get_calendar_date_range(files[comp])
  IN latest # None /\ \A d \in Range(match_days_fetched) : DateOf(latest[1]) >= d

\* C7: once a run has persisted events up to the last match-day, a second
\* run on the same match-day list keeps no match-day and plans no window.
C7_Idempotent ==
  (comp # 0 /\ pc = "loop" /\ CalendarUpToDate) =>
    PlannedAgain = <<>> /\ PlanRanges(PlannedAgain) = <<>>

\* C7 happens: every window was fetched, new events were written and the
\* calendar reaches the last match-day
C7_Witness == AllFetchedAndPersisted /\ CalendarUpToDate /\ Len(fetch_ranges) = 2

\* C8: at most 4 attempts; the first success returns its data; the waits
\* after failed attempts are 1, 2, 4 seconds, none after the 4th; after the
\* 4th failure the function returns None.
C8_BoundedRetry ==
  LET n == service.n_fail
  IN /\ attempt.i <= 4
     /\ attempt.slept = SubSeq(<<1, 2, 4>>, 1, Len(attempt.slept))
     /\ ~attempt.returned =>
          attempt.i < 4 /\ attempt.i <= n /\ Len(attempt.slept) = attempt.i
     /\ (attempt.returned /\ n < 4) =>
          /\ attempt.result = Some(service.json)
          /\ attempt.i = n + 1
          /\ Len(attempt.slept) = n
     /\ (attempt.returned /\ n >= 4) =>
          /\ attempt.result = None
          /\ attempt.i = 4
          /\ attempt.slept = <<1, 2, 4>>

\* C8 happens: the fourth attempt failed and the function returned
C8_Witness ==
  /\ attempt.returned
  /\ attempt.result = None
  /\ attempt.i = 4
  /\ service.n_fail > 4

\* C9: a failed fetch of a window adds no event and the loop goes on with
\* the next window; at the merge every planned window has been requested,
\* the fetched events that are new are written, and the competitions still
\* selected remain to be processed.
C9_FailureNotFatal ==
  [][/\ (pc = "fetch" /\ pc' = "fetch" /\ ~api_ok'[chunk]) =>
          /\ all_fetched_events' = all_fetched_events
          /\ chunk' = chunk + 1
          /\ queue' = queue
     /\ (pc = "fetch" /\ pc' = "loop") =>
          /\ requests = fetch_ranges
          /\ Len(api_ok) = Len(fetch_ranges)
          /\ \A e \in Range(all_fetched_events) :
               e.uid \notin {c.uid : c \in Range(files[comp].events)}
                 => e \in DataOf(files'[comp])
          /\ queue' = queue]_vars

\* C9 happens: a window failed, a later one succeeded, its events were
\* written and another competition is still to be processed
C9_Witness ==
  /\ last = "write"
  /\ Len(api_ok) = 2 /\ ~api_ok[1] /\ api_ok[2]
  /\ new_events_count > 0
  /\ queue # <<>>

C11_EventWithoutUid ==
  [][(pc = "fetch" /\ pc' = "loop" /\ files[comp].parsable) =>
       LET E == Identified(files[comp])
           out == files'[comp].events
       IN /\ last' = "write"
          /\ Len(out) = Len(E) + new_events_count'
          /\ \A i \in DOMAIN E : EventData(out[i]) = EventData(E[i])
          /\ \A j \in DOMAIN out : out[j].uid # NoUid]_vars

\* C11 happens: the latest event of the existing calendar (on day 8) had no
\* UID and was left out, while an identified event after it was read and
\* written back
C11_Witness ==
  /\ last = "write"
  /\ max_cal_date = Some(UtcDateTime(Noon(8)))
  /\ \A c \in Range(files[comp].events) : c.dtstart = UtcDateTime(Noon(1))
  /\ Len(files[comp].events) > new_events_count

\* C12: the windows requested so far are the first planned windows, one
\* request sequence each, in strictly ascending order of start date; a
\* request sequence begins only when the previous one has returned (with data
\* or after its retries), at most one is in progress, and when the loop ends
\* every planned window has been requested once.
C12_FetchOrder ==
  [][/\ Len(requests') <= Len(fetch_ranges')
     /\ requests' = SubSeq(fetch_ranges', 1, Len(requests'))
     /\ \A i, j \in DOMAIN requests' : i < j => requests'[i][1] < requests'[j][1]
     /\ requests' # requests =>
          /\ requests' = Append(requests, fetch_ranges[Len(requests) + 1])
          /\ requests # <<>> => attempt.returned
          /\ Len(api_ok) = Len(requests)
     /\ pc' = "request" => Len(requests') = Len(api_ok') + 1
     /\ pc' = "fetched" => requests' = fetch_ranges']_vars

\* C12 happens: three windows were requested one after the other, the
\* second after the first had exhausted its retries
C12_Witness ==
  /\ pc = "fetched"
  /\ Len(requests) = 3
  /\ ~api_ok[1] /\ api_ok[2]

\* the match records of the processed response that carry a timestamp
TimedRecords == SelectSeq(service.json.matches, LAMBDA r : r.matchDateUtc # None)

\* the two records name the same match number
SameMatchNo(r1, r2) == r1.matchNo # None /\ r1.matchNo = r2.matchNo

\* C13: the events of a response carry the same identifier when their
\* records name the same match number, whatever their start times, and the
\* events of any two other records that differ carry different identifiers.
C13_StableUniqueUid ==
  pc = "processed" =>
    /\ Len(all_fetched_events) = Len(TimedRecords)
    /\ \A i, j \in DOMAIN TimedRecords :
         /\ SameMatchNo(TimedRecords[i], TimedRecords[j])
              => all_fetched_events[i].uid = all_fetched_events[j].uid
         /\ (TimedRecords[i] # TimedRecords[j]
               /\ ~SameMatchNo(TimedRecords[i], TimedRecords[j]))
              => all_fetched_events[i].uid # all_fetched_events[j].uid

\* the UTC date of the latest event start of a calendar that holds events,
\* a start without timezone being read as UTC
LatestUtcDate(file) ==
  LET ts == {c.dtstart.t : c \in Range(file.events)}
  IN (CHOOSE t \in ts : \A u \in ts : u <= t) \div 24

\* C14: the date the filter compares the match-days against is the UTC date
\* of the latest persisted event, a start without timezone taken as UTC: the
\* match-days kept are those after that date.
C14_LatestUtcDate ==
  (last = "filter" /\ files[comp].parsable /\ files[comp].events # <<>>) =>
    /\ max_cal_date # None
    /\ Range(all_match_days) =
         {d \in Range(match_days_fetched) : d > LatestUtcDate(files[comp])}

\* C15: the events of a response are those of its records that carry a
\* timestamp, one each and in order, starting at the record's instant in UTC
\* and ending 2 hours later; a record without timestamp gives no event and
\* does not stop the records after it from giving theirs.
C15_RecordWithoutTime ==
  pc = "processed" =>
    /\ Len(all_fetched_events) = Len(TimedRecords)
    /\ \A k \in DOMAIN TimedRecords :
         LET e == all_fetched_events[k]
             r == TimedRecords[k]
         IN /\ e.dtstart = [t |-> r.matchDateUtc[1], off |-> 0, naive |-> FALSE]
            /\ e.dtend = [t |-> r.matchDateUtc[1] + 2, off |-> 0, naive |-> FALSE]
            /\ e.description = <<comp, r.matchNo>>

\* C15 happens: of three records the second had no timestamp, and the first
\* and the third gave their events
C15_Witness ==
  /\ pc = "processed"
  /\ Len(service.json.matches) = 3
  /\ service.json.matches[1].matchDateUtc # None
  /\ service.json.matches[2].matchDateUtc = None
  /\ service.json.matches[3].matchDateUtc # None
  /\ service.json.matches[1].matchNo # service.json.matches[3].matchNo
  /\ Len(all_fetched_events) = 2

\* the planned windows cover the kept match-days
Coverage ==
  LET kept == Range(all_match_days)
      n == Len(fetch_ranges)
  IN /\ n >= 1
     /\ \A k \in 2..n : fetch_ranges[k][1] > fetch_ranges[k - 1][2]
     /\ \A d \in kept :
          Cardinality({k \in 1..n : fetch_ranges[k][1] <= d /\ d <= fetch_ranges[k][2]}) = 1
     /\ \A k \in 1..n : fetch_ranges[k][1] \in kept
     /\ n <= Cardinality(kept)

\* C16: whenever match-days are kept the planning loop comes to its end, and
\* then each window starts strictly after the end of the one before, every
\* kept match-day lies in exactly one window, every window starts on a kept
\* match-day, and there are at most as many windows as distinct match-days.
C16_WindowCoverage ==
  /\ [](pc = "planned" => Coverage)
  /\ (pc = "sort" ~> pc = "planned")

\* C16 happens: match-days given out of order were planned in two windows
C16_Witness ==
  /\ pc = "planned"
  /\ all_match_days = <<9, 1, 3>>
  /\ Len(fetch_ranges) = 2

\* the calendar of competition c holds events
HasEvents(c) == files[c].parsable /\ files[c].events # <<>>

\* in the merge step a window failed, a later one was fetched, and the
\* written file holds an event dated in the later one
FailedThenPersisted(i, j) ==
  /\ i < j
  /\ ~api_ok[i]
  /\ api_ok[j]
  /\ \E e \in Range(files'[comp].events) :
       fetch_ranges[j][1] <= DateOf(e.dtstart) /\ DateOf(e.dtstart) <= fetch_ranges[j][2]

\* C17: when a window failed and an event of a later window was written, the
\* match-days of the failed window are not after the latest date of the
\* written calendar; and from then on, in every step of every run, the latest
\* date of a calendar does not go back, no window is requested that starts on
\* or before it, and the calendar gains no event dated on or before it.
C17_FailedWindowNotRetried ==
  [][/\ (pc = "fetch" /\ last' = "write") =>
          \A i, j \in DOMAIN api_ok :
            FailedThenPersisted(i, j) =>
              \A d \in Range(match_days_fetched) :
                (fetch_ranges[i][1] <= d /\ d <= fetch_ranges[i][2])
                  => d <= LatestUtcDate(files'[comp])
     /\ \A c \in Comps :
          HasEvents(c) =>
            /\ HasEvents(c)'
            /\ LatestUtcDate(files'[c]) >= LatestUtcDate(files[c])
            /\ comp' = c =>
                 \A k \in DOMAIN requests' : requests'[k][1] > LatestUtcDate(files[c])
            /\ \A e \in Range(files'[c].events) :
                 DateOf(e.dtstart) <= LatestUtcDate(files[c])
                   => EventData(e) \in DataOf(files[c])]_vars

\* C17 happens: the window of day 1 failed, the event of day 8 was written,
\* the calendar holds no event of day 1 and a next run keeps no match-day
C17_Witness ==
  /\ last = "write"
  /\ match_days_fetched = <<1, 8>>
  /\ Len(api_ok) = 2 /\ ~api_ok[1] /\ api_ok[2]
  /\ \A c \in Range(files[comp].events) : DateOf(c.dtstart) = 8
  /\ files[comp].events # <<>>
  /\ PlannedAgain = <<>>

\* the event data of the VEVENTs of a file, in order
DataSeq(file) == [i \in DOMAIN file.events |-> EventData(file.events[i])]

\* the collection the merge of the step is to produce: the identified events
\* read from the file, then the fetched events whose identifier is not among
\* theirs
Merged ==
  LET E == Identified(files[comp])
      uids == {c.uid : c \in Range(E)}
  IN [i \in DOMAIN E |-> EventData(E[i])]
       \o SelectSeq(all_fetched_events, LAMBDA e : e.uid \notin uids)

\* C18: the file of a competition with planned windows is not written while
\* its windows are fetched; after the last one it is written once, with the
\* merged collection, if and only if that collection is non-empty or a file
\* exists at the path, and is left as it is otherwise.  When every fetch
\* failed, no file is created where none was, and a file that was there is
\* rewritten with only the identified events read from it.
C18_WriteCondition ==
  [][/\ pc' = "fetch" => (writes' = 0 /\ files' = files)
     /\ (pc = "fetch" /\ pc' = "loop") =>
          LET should == Merged # <<>> \/ files[comp].exists
              all_failed == \A k \in DOMAIN api_ok : ~api_ok[k]
          IN /\ Len(fetch_ranges) >= 1
             /\ Len(api_ok) = Len(fetch_ranges)
             /\ writes = 0
             /\ writes' = IF should THEN 1 ELSE 0
             /\ should => /\ files'[comp].exists /\ files'[comp].parsable
                          /\ DataSeq(files'[comp]) = Merged
             /\ ~should => files' = files
             /\ \A c \in Comps \ {comp} : files'[c] = files[c]
             /\ (all_failed /\ ~files[comp].exists) => files'[comp] = NoFile
             /\ (all_failed /\ files[comp].exists) =>
                  /\ files'[comp].exists /\ files'[comp].parsable
                  /\ DataSeq(files'[comp]) = DataSeq(CalendarFile(Identified(files[comp])))
     /\ writes' <= 1]_vars

\* C18 happens: no file existed, both planned windows failed, and no file
\* was created
C18_Witness ==
  /\ last = "nowrite"
  /\ found = "nothing"
  /\ Len(api_ok) = 2 /\ ~api_ok[1] /\ ~api_ok[2]
  /\ files[comp] = NoFile

====
